---- MODULE Spec2Model ----
(***************************************************************************)
(* Model of src/Pitcher_Report_App.py: one Streamlit script run.  The      *)
(* script loads the uploaded CSV files, tags each with the session date    *)
(* parsed from its file name, concatenates them, filters by date and by    *)
(* pitcher, cleans and renumbers the pitches, computes the overall         *)
(* statistics (count, mean/max/min velocity, PZR) and the per-pitch-type   *)
(* summary table.                                                          *)
(*                                                                         *)
(* Representation.                                                         *)
(*  - A nullable cell (a pandas NaN/None, a Python None) is a set with at  *)
(*    most one element: {} is null, {v} is the value v.                    *)
(*  - A file name is a tuple of one-character strings.                     *)
(*  - A data frame is [cols |-> set of column names, rows |-> sequence of  *)
(*    row records]; a row carries its pandas index label in "index".       *)
(*  - PlateLocSide is in 1/1200 ft, so that PlateLocSide * 12 is in        *)
(*    1/1200 inch; PlateLocHeight is in 1/1200 ft.  The zone bounds the    *)
(*    script computes in floating point (8.5 + 2.85, 3.5 + 2.85/12, ...)   *)
(*    are the doubles of the literals 11.35, 3.7375, 1.2625, and           *)
(*    (11.35/12)*12 is the double 11.35, so the comparisons on these       *)
(*    fixed-point values agree with the script's on the modelled inputs.   *)
(*  - A float result is [nan, num, den]: NaN, or the rational num/den.     *)
(***************************************************************************)
EXTENDS Integers, Sequences, FiniteSets, TLC

VARIABLES
    uploaded_files,   \* st.file_uploader's result: the batch of this run
    pc,               \* position of the script
    error,            \* the uncaught exception that ended the run, or "none"
    df_list,          \* frames read so far
    file_dates,       \* session date of each file read so far
    df,               \* the concatenated (then date-filtered) frame
    season_range,     \* <<min, max>> of the valid file dates, or <<>>
    selected_dates,   \* st.multiselect's result
    selected_pitcher, \* st.selectbox's result (nullable)
    p,                \* the pitcher's frame
    stats,            \* total_pitches, avg_velo, max_velo, min_velo, overall_pzr
    summary_values,   \* the formatted overall statistics
    pitch_types,      \* p["TaggedPitchType"].unique()
    rows,             \* the summary rows, one per pitch type
    table_str         \* the formatted summary table

vars == <<uploaded_files, pc, error, df_list, file_dates, df, season_range,
          selected_dates, selected_pitcher, p, stats, summary_values,
          pitch_types, rows, table_str>>

-----------------------------------------------------------------------------
(* Nullable cells *)

None == {}

Some(v) == {v}

notna(c) == c # {}

Val(c) == CHOOSE v \in c : TRUE

-----------------------------------------------------------------------------
(* extract_date: re.search(r"(\d{1,2})_(\d{1,2})_(\d{2,4})", filename) and  *)
(* datetime(int(year), int(month), int(day)).                              *)

Digits == <<"0", "1", "2", "3", "4", "5", "6", "7", "8", "9">>

IsDigit(c) == \E i \in 1..10 : Digits[i] = c

DigitVal(c) == (CHOOSE i \in 1..10 : Digits[i] = c) - 1

\* s[i..i+n-1] are all digits
DigitsAt(s, i, n) == i + n - 1 <= Len(s) /\ \A k \in i..(i + n - 1) : IsDigit(s[k])

CharAt(s, i, c) == i <= Len(s) /\ s[i] = c

\* int() of a digit string
RECURSIVE ToInt(_)
ToInt(s) == IF s = <<>> THEN 0
            ELSE 10 * ToInt(SubSeq(s, 1, Len(s) - 1)) + DigitVal(s[Len(s)])

\* The lengths a greedy quantifier tries, longest first.
GreedyLen(s, i, lo, hi) ==
    LET fits == {n \in lo..hi : DigitsAt(s, i, n)}
    IN  IF fits = {} THEN 0 ELSE CHOOSE n \in fits : \A m \in fits : m <= n

\* The match of the pattern starting at position i: the three groups, or <<>>.
\* Each \d{1,2} group is followed by "_", so the regex engine's backtracking
\* from two digits to one succeeds only when the second character is "_".
MatchAt(s, i) ==
    LET tryDay(ml) ==
            LET j == i + ml + 1
                tryYear(dl) ==
                    LET k  == j + dl + 1
                        yl == GreedyLen(s, k, 2, 4)
                    IN  IF DigitsAt(s, j, dl) /\ CharAt(s, j + dl, "_") /\ yl > 0
                        THEN <<SubSeq(s, i, i + ml - 1), SubSeq(s, j, j + dl - 1),
                               SubSeq(s, k, k + yl - 1)>>
                        ELSE <<>>
            IN  IF DigitsAt(s, i, ml) /\ CharAt(s, i + ml, "_")
                THEN IF tryYear(2) # <<>> THEN tryYear(2) ELSE tryYear(1)
                ELSE <<>>
    IN  IF tryDay(2) # <<>> THEN tryDay(2) ELSE tryDay(1)

\* re.search: the match at the leftmost position that has one, or <<>>.
ReSearch(s) ==
    LET starts == {i \in 1..Len(s) : MatchAt(s, i) # <<>>}
    IN  IF starts = {} THEN <<>>
        ELSE MatchAt(s, CHOOSE i \in starts : \A j \in starts : i <= j)

IsLeap(y) == y % 4 = 0 /\ (y % 100 # 0 \/ y % 400 = 0)

DaysInMonth(y, m) ==
    IF m = 2 THEN (IF IsLeap(y) THEN 29 ELSE 28)
    ELSE IF m \in {4, 6, 9, 11} THEN 30 ELSE 31

\* datetime(y, m, d) raises ValueError unless this holds.
DatetimeOk(y, m, d) ==
    /\ y >= 1 /\ y <= 9999
    /\ m >= 1 /\ m <= 12
    /\ d >= 1 /\ d <= DaysInMonth(y, m)

MkDate(y, m, d) == [year |-> y, month |-> m, day |-> d]

\* Mutant of ExpandYear: the wrong century.
ExpandYear19(year) == IF Len(year) = 2 THEN <<"1", "9">> \o year ELSE year

\* if len(year) == 2: year = "20" + year
ExpandYear(year) == IF Len(year) = 2 THEN <<"2", "0">> \o year ELSE year

\* The result of extract_date: [raised, date]; date is nullable.
extract_date(filename) ==
    LET match == ReSearch(filename)
    IN  IF match # <<>>
        THEN LET year  == ToInt(ExpandYear(match[3]))
                 month == ToInt(match[1])
                 day   == ToInt(match[2])
             IN  IF DatetimeOk(year, month, day)
                 THEN [raised |-> FALSE, date |-> Some(MkDate(year, month, day))]
                 ELSE [raised |-> TRUE, date |-> None]
        ELSE [raised |-> FALSE, date |-> None]

DateLess(a, b) ==
    \/ a.year < b.year
    \/ a.year = b.year /\ a.month < b.month
    \/ a.year = b.year /\ a.month = b.month /\ a.day < b.day

-----------------------------------------------------------------------------
(* Data frames *)

ExpectedCols == {"Pitcher", "TaggedPitchType", "RelSpeed", "PitchNo",
                 "PlateLocSide", "PlateLocHeight", "InducedVertBreak",
                 "HorzBreak", "SpinRate", "HorzApprAngle", "VertApprAngle"}

EmptyFrame == [cols |-> {}, rows |-> <<>>]

\* pd.read_csv(file): the file's columns; a row has no value in a column the
\* file does not have.  The index is 0..n-1.
read_csv(file) ==
    [cols |-> file.cols,
     rows |-> [i \in 1..Len(file.rows) |->
                 [c \in ExpectedCols |->
                     IF c \in file.cols THEN file.rows[i][c] ELSE None]
                 @@ [index |-> i - 1]]]

\* temp["SourceFile"] = file.name; temp["SessionDate"] = session_date
Tag(temp, name, session_date) ==
    [cols |-> temp.cols \cup {"SourceFile", "SessionDate"},
     rows |-> [i \in 1..Len(temp.rows) |->
                 [SourceFile |-> Some(name), SessionDate |-> session_date]
                 @@ temp.rows[i]]]

RECURSIVE ConcatRows(_)
ConcatRows(frames) ==
    IF frames = <<>> THEN <<>>
    ELSE ConcatRows(SubSeq(frames, 1, Len(frames) - 1)) \o frames[Len(frames)].rows

\* pd.concat(df_list, ignore_index=True): the union of the columns (a frame
\* without a column has nulls there), the rows in list order, index 0..N-1.
concat(frames) ==
    LET all == ConcatRows(frames)
    IN  [cols |-> UNION {frames[i].cols : i \in 1..Len(frames)},
         rows |-> [i \in 1..Len(all) |-> [all[i] EXCEPT !.index = i - 1]]]

\* frame[mask]: the rows that satisfy Keep, in order, index labels kept.
Filter(frame, Keep(_)) == [frame EXCEPT !.rows = SelectSeq(frame.rows, Keep)]

\* The non-null values of a column.
Values(frame, c) ==
    {Val(frame.rows[i][c]) : i \in {j \in 1..Len(frame.rows) : notna(frame.rows[j][c])}}

\* Mutant of Unique: every value, repeats included.
UniqueNoDedup(frame, c) == [i \in 1..Len(frame.rows) |-> frame.rows[i][c]]

\* series.unique().tolist() on a column without nulls: first-appearance order.
RECURSIVE Unique(_, _)
Unique(frame, c) ==
    IF frame.rows = <<>> THEN <<>>
    ELSE LET n    == Len(frame.rows)
             head == Unique([frame EXCEPT !.rows = SubSeq(frame.rows, 1, n - 1)], c)
             v    == frame.rows[n][c]
         IN  IF \E i \in 1..Len(head) : head[i] = v THEN head ELSE Append(head, v)

\* p.sort_values("PitchNo"): ascending, nulls last (in their original
\* order); the default kind is quicksort, which is not stable, so rows with
\* equal PitchNo may come out in any order.  The set of possible results.
sort_values(frame) ==
    LET n == Len(frame.rows)
        r == frame.rows
        Before(a, b) ==   \* a must precede b
            \/ notna(a.PitchNo) /\ notna(b.PitchNo) /\ Val(a.PitchNo) < Val(b.PitchNo)
            \/ notna(a.PitchNo) /\ ~notna(b.PitchNo)
            \/ ~notna(a.PitchNo) /\ ~notna(b.PitchNo) /\ a.index < b.index
    IN  {[frame EXCEPT !.rows = [i \in 1..n |-> r[perm[i]]]] :
            perm \in {f \in [1..n -> 1..n] :
                        /\ \A i, j \in 1..n : i # j => f[i] # f[j]
                        /\ \A i, j \in 1..n : Before(r[f[i]], r[f[j]]) => i < j}}

\* Mutant of Renumber: the original numbers kept.
RenumberKept(frame) == frame

\* p["PitchNo"] = range(1, len(p) + 1)
Renumber(frame) ==
    [cols |-> frame.cols \cup {"PitchNo"},
     rows |-> [i \in 1..Len(frame.rows) |-> [frame.rows[i] EXCEPT !.PitchNo = Some(i)]]]

-----------------------------------------------------------------------------
(* Floats: [nan, num, den] *)

NaN == [nan |-> TRUE, num |-> 0, den |-> 1]

Num(n, d) == [nan |-> FALSE, num |-> n, den |-> d]

RECURSIVE SumOf(_, _)
SumOf(frame, c) ==
    IF frame.rows = <<>> THEN 0
    ELSE LET n == Len(frame.rows)
             v == frame.rows[n][c]
         IN  SumOf([frame EXCEPT !.rows = SubSeq(frame.rows, 1, n - 1)], c)
             + (IF notna(v) THEN Val(v) ELSE 0)

CountOf(frame, c) == Cardinality({i \in 1..Len(frame.rows) : notna(frame.rows[i][c])})

\* series.mean(): over the non-null values; NaN when there is none.
mean(frame, c) ==
    IF CountOf(frame, c) = 0 THEN NaN ELSE Num(SumOf(frame, c), CountOf(frame, c))

\* series.max() / series.min()
max(frame, c) ==
    IF Values(frame, c) = {} THEN NaN
    ELSE Num(CHOOSE v \in Values(frame, c) : \A w \in Values(frame, c) : w <= v, 1)

min(frame, c) ==
    IF Values(frame, c) = {} THEN NaN
    ELSE Num(CHOOSE v \in Values(frame, c) : \A w \in Values(frame, c) : v <= w, 1)

\* 2.85 inches, in 1/1200 inch
margin_in == 3420

\* margin_in / 12: feet, in 1/1200 ft
margin_ft == margin_in \div 12

\* -8.5 - margin_in, 8.5 + margin_in (1/1200 inch)
sx_left == (-10200) - margin_in

sx_right == 10200 + margin_in

\* 1.5 - margin_ft, 3.5 + margin_ft (1/1200 ft)
sz_bot == 1800 - margin_ft

sz_top == 4200 + margin_ft

\* Mutant of InZone: the right edge exclusive.
InZoneStrict(row) ==
    /\ notna(row.PlateLocSide)
    /\ notna(row.PlateLocHeight)
    /\ LET px == Val(row.PlateLocSide) * 12
           pz == Val(row.PlateLocHeight)
       IN  px >= sx_left /\ px < sx_right /\ pz >= sz_bot /\ pz <= sz_top

\* One element of pzr_mask; a comparison with NaN is False.
InZone(row) ==
    /\ notna(row.PlateLocSide)
    /\ notna(row.PlateLocHeight)
    /\ LET px == Val(row.PlateLocSide) * 12
           pz == Val(row.PlateLocHeight)
       IN  px >= sx_left /\ px <= sx_right /\ pz >= sz_bot /\ pz <= sz_top

\* pzr_mask.mean() * 100; the mean of an empty mask is NaN.
compute_pzr(sub) ==
    IF sub.rows = <<>> THEN NaN
    ELSE Num(100 * Cardinality({i \in 1..Len(sub.rows) : InZone(sub.rows[i])}),
             Len(sub.rows))

-----------------------------------------------------------------------------
(* Formatting *)

Pow10(d) == IF d = 0 THEN 1 ELSE IF d = 1 THEN 10 ELSE 100

\* num/den * 10^digits rounded to the nearest integer, ties to even.
Round(x, digits) ==
    LET scaled == x.num * Pow10(digits)
        q      == scaled \div x.den
        r      == scaled % x.den
    IN  IF 2 * r < x.den THEN q
        ELSE IF 2 * r > x.den THEN q + 1
        ELSE IF q % 2 = 0 THEN q ELSE q + 1

\* f"{x:.<digits>f}": the text "nan" for NaN, else the rounded number.
Format(x, digits) ==
    IF x.nan THEN [kind |-> "nan", scaled |-> 0, digits |-> digits]
    ELSE [kind |-> "number", scaled |-> Round(x, digits), digits |-> digits]

\* f"{x:.<digits>f}" if not np.isnan(x) else "-"
FormatOrDash(x, digits) ==
    IF x.nan THEN [kind |-> "dash", scaled |-> 0, digits |-> digits]
    ELSE Format(x, digits)

\* summarize(sub)
summarize(sub) ==
    <<Num(Len(sub.rows), 1),
      mean(sub, "RelSpeed"),
      mean(sub, "InducedVertBreak"),
      mean(sub, "HorzBreak"),
      mean(sub, "SpinRate"),
      mean(sub, "HorzApprAngle"),
      mean(sub, "VertApprAngle"),
      compute_pzr(sub)>>

\* One line of table_str.
TableLine(r) ==
    <<Format(r[1], 0),
      Format(r[2], 1),
      Format(r[3], 1),
      Format(r[4], 1),
      FormatOrDash(r[5], 0),
      FormatOrDash(r[6], 2),
      FormatOrDash(r[7], 2),
      Format(r[8], 1)>>

\* p[p["TaggedPitchType"] == pt]
OfType(frame, pt) ==
    LET Keep(row) == notna(pt) /\ row.TaggedPitchType = pt
    IN  Filter(frame, Keep)

-----------------------------------------------------------------------------
(* The script *)

\* The overall statistics before they are computed.
NoStats == [total_pitches |-> 0, avg_velo |-> NaN, max_velo |-> NaN,
            min_velo |-> NaN, overall_pzr |-> NaN]

\* The state of a run before its first statement, for a given upload.
Fresh(files) ==
    /\ uploaded_files = files
    /\ pc = "start"
    /\ error = "none"
    /\ df_list = <<>>
    /\ file_dates = <<>>
    /\ df = EmptyFrame
    /\ season_range = <<>>
    /\ selected_dates = {}
    /\ selected_pitcher = None
    /\ p = EmptyFrame
    /\ stats = NoStats
    /\ summary_values = <<>>
    /\ pitch_types = <<>>
    /\ rows = <<>>
    /\ table_str = <<>>

\* An uncaught exception ends the run.
Raise(e) == pc' = "crashed" /\ error' = e

\* if not uploaded_files: st.stop()
Start ==
    /\ pc = "start"
    /\ pc' = IF uploaded_files = <<>> THEN "stopped" ELSE "load"
    /\ UNCHANGED <<uploaded_files, error, df_list, file_dates, df, season_range,
                   selected_dates, selected_pitcher, p, stats, summary_values,
                   pitch_types, rows, table_str>>

\* One iteration of "for file in uploaded_files".
LoadFile ==
    /\ pc = "load"
    /\ Len(df_list) < Len(uploaded_files)
    /\ LET file == uploaded_files[Len(df_list) + 1]
           temp == read_csv(file)
           res  == extract_date(file.name)
       IN  IF res.raised
           THEN Raise("ValueError") /\ UNCHANGED <<df_list, file_dates>>
           ELSE /\ df_list' = Append(df_list, Tag(temp, file.name, res.date))
                /\ file_dates' = Append(file_dates, res.date)
                /\ UNCHANGED <<pc, error>>
    /\ UNCHANGED <<uploaded_files, df, season_range, selected_dates,
                   selected_pitcher, p, stats, summary_values, pitch_types, rows,
                   table_str>>

\* df = pd.concat(df_list, ignore_index=True) and the season date range.
Concat ==
    /\ pc = "load"
    /\ Len(df_list) = Len(uploaded_files)
    /\ df' = concat(df_list)
    /\ LET valid_dates == {Val(file_dates[i]) :
                             i \in {j \in 1..Len(file_dates) : notna(file_dates[j])}}
       IN  season_range' =
             IF valid_dates # {}
             THEN <<CHOOSE d \in valid_dates : \A e \in valid_dates : ~DateLess(e, d),
                    CHOOSE d \in valid_dates : \A e \in valid_dates : ~DateLess(d, e)>>
             ELSE <<>>
    /\ pc' = "dates"
    /\ UNCHANGED <<uploaded_files, error, df_list, file_dates, selected_dates,
                   selected_pitcher, p, stats, summary_values, pitch_types, rows,
                   table_str>>

\* sorted(df["SessionDate"].dropna().unique()), as a set
available_dates == Values(df, "SessionDate")

\* The date multiselect and df = df[df["SessionDate"].isin(selected_dates)].
DateFilter ==
    /\ pc = "dates"
    /\ \E sel \in SUBSET available_dates :
         /\ selected_dates' = sel
         /\ LET Keep(row) == notna(row.SessionDate) /\ Val(row.SessionDate) \in sel
            IN  df' = Filter(df, Keep)
    /\ pc' = "pitcher"
    /\ UNCHANGED <<uploaded_files, error, df_list, file_dates, season_range,
                   selected_pitcher, p, stats, summary_values, pitch_types, rows,
                   table_str>>

\* The pitcher selectbox, p = df[df["Pitcher"] == selected_pitcher].copy() and
\* the empty check.  The selectbox returns None when it has no options, and
\* no row's Pitcher equals None.
PitcherSelect ==
    /\ pc = "pitcher"
    /\ IF "Pitcher" \notin df.cols
       THEN Raise("KeyError") /\ UNCHANGED <<selected_pitcher, p>>
       ELSE LET pitchers == Values(df, "Pitcher")
            IN  \E sel \in (IF pitchers = {} THEN {None}
                            ELSE {Some(x) : x \in pitchers}) :
                  LET Keep(row) == notna(sel) /\ row.Pitcher = sel
                      view == Filter(df, Keep)
                  IN  /\ selected_pitcher' = sel
                      /\ p' = view
                      /\ pc' = IF view.rows = <<>> THEN "stopped" ELSE "clean"
                      /\ error' = error
    /\ UNCHANGED <<uploaded_files, df_list, file_dates, df, season_range,
                   selected_dates, stats, summary_values, pitch_types, rows,
                   table_str>>

\* Clean & Reorder.
Clean ==
    /\ pc = "clean"
    /\ IF ~({"TaggedPitchType", "RelSpeed", "PitchNo"} \subseteq p.cols)
       THEN Raise("KeyError") /\ UNCHANGED p
       ELSE LET HasType(row)  == notna(row.TaggedPitchType)
                HasSpeed(row) == notna(row.RelSpeed)
            IN  /\ \E sorted \in sort_values(Filter(Filter(p, HasType), HasSpeed)) :
                      p' = Renumber(sorted)
                /\ pc' = "stats"
                /\ error' = error
    /\ UNCHANGED <<uploaded_files, df_list, file_dates, df, season_range,
                   selected_dates, selected_pitcher, stats, summary_values,
                   pitch_types, rows, table_str>>

\* SUMMARY STATS, overall_pzr and summary_values.
Stats ==
    /\ pc = "stats"
    /\ IF ~({"PlateLocSide", "PlateLocHeight"} \subseteq p.cols)
       THEN Raise("KeyError") /\ UNCHANGED <<stats, summary_values>>
       ELSE LET st == [total_pitches |-> Len(p.rows),
                       avg_velo      |-> mean(p, "RelSpeed"),
                       max_velo      |-> max(p, "RelSpeed"),
                       min_velo      |-> min(p, "RelSpeed"),
                       overall_pzr   |-> compute_pzr(p)]
            IN  /\ stats' = st
                /\ summary_values' =
                     <<Format(Num(st.total_pitches, 1), 0),
                       Format(st.avg_velo, 1),
                       Format(st.max_velo, 1),
                       Format(st.min_velo, 1),
                       Format(st.overall_pzr, 1)>>
                /\ pc' = "summary"
                /\ error' = error
    /\ UNCHANGED <<uploaded_files, df_list, file_dates, df, season_range,
                   selected_dates, selected_pitcher, p, pitch_types, rows,
                   table_str>>

\* pitch_types and the loops over it: the plots read HorzBreak,
\* InducedVertBreak and the plate location per pitch type, summarize reads
\* the six mean columns.  With no pitch type no loop body runs.
Summary ==
    /\ pc = "summary"
    /\ LET types  == Unique(p, "TaggedPitchType")
           needed == {"HorzBreak", "InducedVertBreak", "SpinRate",
                      "HorzApprAngle", "VertApprAngle"}
       IN  /\ pitch_types' = types
           /\ IF types # <<>> /\ ~(needed \subseteq p.cols)
              THEN Raise("KeyError") /\ UNCHANGED rows
              ELSE /\ rows' = [i \in 1..Len(types) |-> summarize(OfType(p, types[i]))]
                   /\ pc' = "table"
                   /\ error' = error
    /\ UNCHANGED <<uploaded_files, df_list, file_dates, df, season_range,
                   selected_dates, selected_pitcher, p, stats, summary_values, table_str>>

\* table_str.  Drawing the figure from it (matplotlib) is not modelled.
Table ==
    /\ pc = "table"
    /\ table_str' = [i \in 1..Len(rows) |-> TableLine(rows[i])]
    /\ pc' = "done"
    /\ UNCHANGED <<uploaded_files, error, df_list, file_dates, df, season_range,
                   selected_dates, selected_pitcher, p, stats, summary_values,
                   pitch_types, rows>>

\* A widget change reruns the script from the top on the same upload.
Rerun ==
    /\ pc \in {"done", "stopped", "crashed"}
    /\ pc' = "start"
    /\ error' = "none"
    /\ df_list' = <<>>
    /\ file_dates' = <<>>
    /\ df' = EmptyFrame
    /\ season_range' = <<>>
    /\ selected_dates' = {}
    /\ selected_pitcher' = None
    /\ p' = EmptyFrame
    /\ stats' = NoStats
    /\ summary_values' = <<>>
    /\ pitch_types' = <<>>
    /\ rows' = <<>>
    /\ table_str' = <<>>
    /\ UNCHANGED uploaded_files

Next ==
    \/ Start
    \/ LoadFile
    \/ Concat
    \/ DateFilter
    \/ PitcherSelect
    \/ Clean
    \/ Stats
    \/ Summary
    \/ Table
    \/ Rerun

-----------------------------------------------------------------------------
(* Uploads *)

\* Bounds of the uploads explored.
MaxFiles == 2

MaxRows == 2

\* A CSV row.
Row(pitcher, type, speed, no, side, height, ivb, hb, spin, haa, vaa) ==
    [Pitcher |-> pitcher, TaggedPitchType |-> type, RelSpeed |-> speed,
     PitchNo |-> no, PlateLocSide |-> side, PlateLocHeight |-> height,
     InducedVertBreak |-> ivb, HorzBreak |-> hb, SpinRate |-> spin,
     HorzApprAngle |-> haa, VertApprAngle |-> vaa]

Undated == <<"a">>

Mar1 == <<"3", "_", "1", "_", "2", "4">>

Mar2 == <<"3", "_", "2", "_", "2", "4">>

RECURSIVE Total(_)
Total(shape) ==
    IF shape = <<>> THEN 0 ELSE shape[Len(shape)] + Total(SubSeq(shape, 1, Len(shape) - 1))

\* The batches of n files, file i with shape[i] rows drawn from rowSet, a name
\* from names and the columns colSets offers.
Batches(n, shape, names, colSets, rowSet) ==
    {[i \in 1..n |->
        [name |-> nm[i], cols |-> cs[i],
         rows |-> SubSeq(flat, Total(SubSeq(shape, 1, i - 1)) + 1,
                         Total(SubSeq(shape, 1, i)))]] :
        nm \in [1..n -> names], cs \in [1..n -> colSets],
        flat \in [1..Total(shape) -> rowSet]}

\* The shapes: up to maxFiles files of at least one row, maxRows rows in all.
Shapes(maxFiles, maxRows) ==
    UNION {{s \in [1..n -> 1..maxRows] : Total(s) <= maxRows} : n \in 1..maxFiles}

\* Uploads that vary who threw which pitch, what is missing from a row of
\* pitcher A (pitcher B's pitches are complete fastballs), the pitch numbers
\* and the session dates.
SelectionRows ==
    {Row(Some("A"), ts[1], ts[2], Some(no), Some(0), Some(3000), Some(10),
         Some(5), Some(2000), Some(1), Some(-5)) :
        ts \in {<<Some("FB"), Some(90)>>, <<Some("CB"), Some(80)>>,
                <<None, Some(90)>>, <<Some("FB"), None>>},
        no \in {1, 2}}
    \cup
    {Row(Some("B"), Some("FB"), Some(90), Some(no), Some(0), Some(3000),
         Some(10), Some(5), Some(2000), Some(1), Some(-5)) : no \in {1, 2}}

Init ==
    \E s \in Shapes(MaxFiles, MaxRows) \cup {<<>>} :
      \E files \in Batches(Len(s), s, {Mar1, Mar2}, {ExpectedCols},
                           SelectionRows) :
        Fresh(files)

Spec == Init /\ [][Next]_vars

-----------------------------------------------------------------------------
(* File names: one file whose name carries a month_day_year token built    *)
(* from the parts below (or no token), with one pitch in it.               *)

\* A digit string and the number it writes.
Tok(str, val) == [s |-> str, v |-> val]

MonthToks == {Tok(<<"3">>, 3), Tok(<<"0", "3">>, 3), Tok(<<"2">>, 2),
              Tok(<<"1", "2">>, 12), Tok(<<"1", "3">>, 13), Tok(<<"0">>, 0)}

DayToks == {Tok(<<"1">>, 1), Tok(<<"1", "4">>, 14), Tok(<<"2", "9">>, 29),
            Tok(<<"3", "1">>, 31), Tok(<<"3", "2">>, 32), Tok(<<"0">>, 0)}

\* Two-digit years.
ShortYearToks == {Tok(<<"2", "4">>, 24), Tok(<<"2", "3">>, 23), Tok(<<"0", "0">>, 0)}

YearToks == ShortYearToks \cup
            {Tok(<<"2", "0", "2", "4">>, 2024), Tok(<<"0", "2", "4">>, 24),
             Tok(<<"0", "0", "0">>, 0), Tok(<<"1", "9", "0", "0">>, 1900)}

\* What may precede the token without holding a digit, and what may follow
\* it without starting with one.
PlainPrefixes == {<<>>, <<"S", "_">>}

PlainSuffixes == {<<>>, <<".", "c">>, <<"_", "7">>}

Prefixes == PlainPrefixes \cup {<<"S", "1">>, <<"1", "_">>}

Suffixes == PlainSuffixes \cup {<<"5">>}

TokenName(pre, m, d, y, suf) == pre \o m \o <<"_">> \o d \o <<"_">> \o y \o suf

DateNames ==
    {TokenName(pre, m.s, d.s, y.s, suf) :
        pre \in Prefixes, m \in MonthToks, d \in DayToks, y \in YearToks,
        suf \in Suffixes}
    \cup {Undated, <<"3", "_", "1">>, <<"3", "-", "1", "-", "2", "4">>,
          <<"1", "2", "3", "_", "1", "_", "2", "4">>, <<"3", "_", "1", "_", "2">>}

DefaultRow ==
    Row(Some("A"), Some("FB"), Some(90), Some(1), Some(0), Some(3000), Some(10),
        Some(5), Some(2000), Some(1), Some(-5))

InitDate ==
    \E files \in Batches(1, <<1>>, DateNames, {ExpectedCols}, {DefaultRow}) :
        Fresh(files)

SpecDate == InitDate /\ [][Next]_vars

-----------------------------------------------------------------------------
(* Plate locations: one file of a pitcher's pitches around the edges of    *)
(* the expanded zone.                                                      *)

MaxPzrRows == 2

\* Plate locations <<side, height>>: each coordinate just outside, on and
\* inside each edge with the other on an edge, and missing coordinates.
PzrPoints ==
    {<<side, Some(4485)>> :
        side \in {None, Some(-1136), Some(-1135), Some(1135), Some(1136)}}
    \cup
    {<<Some(1135), height>> :
        height \in {None, Some(1514), Some(1515), Some(4485), Some(4486)}}
    \cup {<<Some(-1135), Some(1515)>>, <<Some(0), Some(3000)>>, <<None, None>>}

PzrRows ==
    {Row(Some("A"), Some(t), Some(90), Some(1), pt[1], pt[2], Some(10),
         Some(5), Some(2000), Some(1), Some(-5)) :
        t \in {"FB", "CB"}, pt \in PzrPoints}

InitPzr ==
    \E n \in 1..MaxPzrRows :
      \E files \in Batches(1, <<n>>, {Mar1}, {ExpectedCols}, PzrRows) :
        Fresh(files)

SpecPzr == InitPzr /\ [][Next]_vars

-----------------------------------------------------------------------------
(* Missing measurements: one file of a pitcher's pitches, each measurement *)
(* of the summary table present or empty.                                  *)

MaxSummaryRows == 2

SummaryRows ==
    {Row(Some("A"), Some(t), Some(90), Some(1), Some(0), Some(3000), ivb, hb,
         spin, haa, vaa) :
        t \in {"FB", "CB"}, ivb \in {None, Some(10)}, hb \in {None, Some(5)},
        spin \in {None, Some(2000)}, haa \in {None, Some(1)},
        vaa \in {None, Some(-5)}}

InitSummary ==
    \E n \in 1..MaxSummaryRows :
      \E files \in Batches(1, <<n>>, {Mar1}, {ExpectedCols}, SummaryRows) :
        Fresh(files)

SpecSummary == InitSummary /\ [][Next]_vars

-----------------------------------------------------------------------------
(* Missing columns: files of one pitch each, each file with all the        *)
(* expected columns or all but one.                                        *)

ColumnSets == {ExpectedCols} \cup {ExpectedCols \ {c} : c \in ExpectedCols}

InitColumns ==
    \E n \in 1..MaxFiles :
      \E files \in Batches(n, [i \in 1..n |-> 1], {Mar1}, ColumnSets, {DefaultRow}) :
        Fresh(files)

SpecColumns == InitColumns /\ [][Next]_vars

-----------------------------------------------------------------------------
(* Properties *)

\* The script is past Clean & Reorder: p is the FilteredView.
Cleaned == pc \in {"stats", "summary", "table", "done"}

\* The overall statistics have been computed.
StatsDone == pc \in {"summary", "table", "done"}

\* The UnifiedDataset: the concatenation before any filter.
Unified == concat(df_list)

\* The PitchNo the row with index label ix had before it was reassigned.
OrigPitchNo(ix) ==
    LET i == CHOOSE j \in 1..Len(df.rows) : df.rows[j].index = ix
    IN  df.rows[i].PitchNo

\* The positions in p of the rows of pitch type t.
Group(t) == {i \in 1..Len(p.rows) : p.rows[i].TaggedPitchType = t}

\* C1: statistics are computed only over a view with at least one row; a
\* selection that leaves no row ends in the "no data" state.
C1_StatsOnlyOverRows == StatsDone => Len(p.rows) >= 1

\* C2: the FilteredView is in UnifiedDataset order: of two retained rows, the
\* one earlier in the UnifiedDataset (file upload order, then row order) has
\* the smaller reassigned pitchSequence.
C2_UnifiedOrder ==
    Cleaned =>
        \A i, j \in 1..Len(p.rows) :
            p.rows[i].index < p.rows[j].index
                => Val(p.rows[i].PitchNo) < Val(p.rows[j].PitchNo)

\* C3: selecting every available date gives back the UnifiedDataset, row for
\* row, whether or not every file has a session date.
C3_FullSelectionIsIdentity ==
    (pc = "pitcher" /\ selected_dates = Values(Unified, "SessionDate"))
        => df = Unified

\* C4: extract_date never raises, whatever the file name; the batch load
\* completes.
C4_ExtractDateNeverRaises == error # "ValueError"

\* The cells of a summary line that hold means, and their columns.
MeanCols == <<"RelSpeed", "InducedVertBreak", "HorzBreak", "SpinRate",
              "HorzApprAngle", "VertApprAngle">>

\* C5: a mean over a column that is null in every row of a pitch-type group
\* is shown as the "not available" sentinel.
C5_AllNullMeanIsSentinel ==
    pc = "done" =>
        \A k \in 1..Len(table_str) : \A c \in 1..Len(MeanCols) :
            (\A i \in Group(pitch_types[k]) : ~notna(p.rows[i][MeanCols[c]]))
                => table_str[k][c + 1].kind = "dash"

\* In zone as the claim states it: -11.35 <= plateLocSide*12 <= 11.35 inches
\* and 1.2625 <= plateLocHeight <= 3.7375 ft, both coordinates present.
ClaimInZone(row) ==
    /\ notna(row.PlateLocSide)
    /\ notna(row.PlateLocHeight)
    /\ -13620 <= Val(row.PlateLocSide) * 12
    /\ Val(row.PlateLocSide) * 12 <= 13620
    /\ 1515 <= Val(row.PlateLocHeight)
    /\ Val(row.PlateLocHeight) <= 4485

\* x is 100 * (rows of p at positions in zone) / (number of positions).
PzrIs(x, positions) ==
    /\ ~x.nan
    /\ x.num * Cardinality(positions)
         = 100 * Cardinality({i \in positions : ClaimInZone(p.rows[i])}) * x.den

\* C6: for a non-empty set of rows compute_pzr is 100 * in-zone / total, the
\* zone edges inclusive, a row with a null coordinate out of the zone and in
\* the total.
C6_PzrFormula ==
    /\ (StatsDone /\ p.rows # <<>>) => PzrIs(stats.overall_pzr, 1..Len(p.rows))
    /\ pc \in {"table", "done"} =>
          \A k \in 1..Len(rows) : PzrIs(rows[k][8], Group(pitch_types[k]))

\* A pitch on the upper right corner of the zone and one 0.01 inch right of
\* it: PZR 50.0.
C6_Witness ==
    /\ pc = "done"
    /\ Len(p.rows) = 2
    /\ \E i, j \in 1..2 :
         /\ p.rows[i].PlateLocSide = Some(1135)
         /\ p.rows[i].PlateLocHeight = Some(4485)
         /\ p.rows[j].PlateLocSide = Some(1136)
         /\ p.rows[j].PlateLocHeight = Some(4485)
    /\ summary_values[5] = [kind |-> "number", scaled |-> 500, digits |-> 1]

\* C7: after Clean & Reorder every row has a pitch type and a release speed,
\* and the pitchSequence values in output order are 1, 2, ..., N.
C7_CleanAndReindex ==
    Cleaned =>
        \A i \in 1..Len(p.rows) :
            /\ notna(p.rows[i].TaggedPitchType)
            /\ notna(p.rows[i].RelSpeed)
            /\ p.rows[i].PitchNo = Some(i)

\* Of the pitcher's two pitches the first lacks a pitch type; the second,
\* numbered 2 in its file, is kept and numbered 1.
C7_Witness ==
    /\ pc = "done"
    /\ Len(p.rows) = 1
    /\ OrigPitchNo(p.rows[1].index) = Some(2)
    /\ \E i \in 1..Len(df.rows) :
         /\ df.rows[i].Pitcher = selected_pitcher
         /\ ~notna(df.rows[i].TaggedPitchType)

\* C8: a column missing from a file, or from every file, never makes the load
\* or the pipeline fail.
C8_MissingColumnNeverFails == error # "KeyError"

\* C9: a first date token m_d_yy with a valid date gives (2000 + yy, m, d), as
\* the token m_d_20yy does.
C9_TwoDigitYear ==
    \A pre \in PlainPrefixes, m \in MonthToks, d \in DayToks,
       y \in ShortYearToks, suf \in PlainSuffixes :
        (/\ Len(uploaded_files) = 1
         /\ uploaded_files[1].name = TokenName(pre, m.s, d.s, y.s, suf)
         /\ DatetimeOk(2000 + y.v, m.v, d.v)
         /\ pc # "start"
         /\ ~(pc = "load" /\ df_list = <<>>))
        => /\ error # "ValueError"
           /\ file_dates = <<Some(MkDate(2000 + y.v, m.v, d.v))>>
           /\ extract_date(TokenName(pre, m.s, d.s, <<"2", "0">> \o y.s, suf))
                = [raised |-> FALSE, date |-> Some(MkDate(2000 + y.v, m.v, d.v))]

\* "S_3_14_24.c" was loaded with session date 2024-03-14.
C9_Witness ==
    /\ pc = "done"
    /\ uploaded_files[1].name =
         TokenName(<<"S", "_">>, <<"3">>, <<"1", "4">>, <<"2", "4">>, <<".", "c">>)
    /\ file_dates = <<Some(MkDate(2024, 3, 14))>>

RECURSIVE SumCounts(_)
SumCounts(rs) ==
    IF rs = <<>> THEN 0 ELSE rs[Len(rs)][1].num + SumCounts(SubSeq(rs, 1, Len(rs) - 1))

\* C10: the summary has one entry per pitch type of the FilteredView, in
\* the order of each type's first appearance, and the counts add up to the
\* number of rows.
C10_SummaryOrder ==
    pc \in {"table", "done"} =>
        LET types == {p.rows[i].TaggedPitchType : i \in 1..Len(p.rows)}
            First(t) == CHOOSE i \in Group(t) : \A j \in Group(t) : i <= j
        IN  /\ Len(rows) = Cardinality(types)
            /\ Len(pitch_types) = Len(rows)
            /\ {pitch_types[k] : k \in 1..Len(pitch_types)} = types
            /\ \A k, l \in 1..Len(pitch_types) :
                 k < l => First(pitch_types[k]) < First(pitch_types[l])
            /\ \A k \in 1..Len(rows) :
                 rows[k][1] = Num(Cardinality(Group(pitch_types[k])), 1)
            /\ SumCounts(rows) = Len(p.rows)

\* Fastball thrown before curveball: the summary lists FB, then CB.
C10_Witness ==
    /\ pc = "done"
    /\ pitch_types = <<Some("FB"), Some("CB")>>
    /\ Len(rows) = 2

====
